---- MODULE Spec2Model ----
(***************************************************************************)
(* The arith calculus of src/arith/src/main.rs: the AST built from a pest  *)
(* parse tree (AST::try_from), the structural metrics (arith_size,         *)
(* arith_depth) and the big-step evaluator (eval_ast), run in the order of *)
(* main().  The evaluator's recursion is unfolded on an explicit call      *)
(* stack, one frame per activation of eval_ast.                            *)
(***************************************************************************)
EXTENDS Integers, Sequences, FiniteSets, TLC

\* ------------------------------------------------------------------ bounds
\* Every AST with at most MaxSize nodes is an input of the run.
MaxSize == 6
\* Every parse tree with at most MaxPairNodes nodes (any rule, any arity) is too.
MaxPairNodes == 3

\* ------------------------------------------------------------------ enum AST
True == <<"True">>
False == <<"False">>
Zero == <<"Zero">>
Succ(v) == <<"Succ", v>>
Pred(v) == <<"Pred", v>>
IsZero(v) == <<"IsZero", v>>
IfThenElse(cond, then, els) == <<"IfThenElse", cond, then, els>>

\* ------------------------------------------------------------------ Result / enum ArithError
Ok(v) == [ok |-> TRUE, val |-> v]
Err(e) == [ok |-> FALSE, err |-> e]
EmptyPairsError == <<"EmptyPairsError">>
UnexpectedNodeError(rule) == <<"UnexpectedNodeError", rule>>
UnknownRuleError(v) == <<"UnknownRuleError", v>>

\* ------------------------------------------------------------------ parse tree (pest Pair)
\* The rule kinds AST::try_from maps, and the other variants of enum Rule.
MappedRules == {"Term", "True", "False", "Zero", "Succ", "Pred", "IsZero", "IfThenElse"}
OtherRules == {"Input", "EOI"}
Rules == MappedRules \cup OtherRules

\* A Pair: its rule kind (as_rule) and its children in order (into_inner).
Pair(rule, inner) == [rule |-> rule, inner |-> inner]

\* Pairs::next().ok_or(EmptyPairsError): the head of the iterator, which advances.
try_take(pairs) ==
    IF Len(pairs) = 0
    THEN Err(EmptyPairsError)
    ELSE [ok |-> TRUE, val |-> Head(pairs), rest |-> Tail(pairs)]

RECURSIVE try_from(_)

\* Variant of the IfThenElse arm: the else-branch is taken before the then-branch.
TryFromIfThenElseSwapped(value) ==
    LET p1 == try_take(value.inner) IN
    IF ~p1.ok THEN Err(p1.err) ELSE
    LET a1 == try_from(p1.val) IN
    IF ~a1.ok THEN a1 ELSE
    LET p2 == try_take(p1.rest) IN
    IF ~p2.ok THEN Err(p2.err) ELSE
    LET a2 == try_from(p2.val) IN
    IF ~a2.ok THEN a2 ELSE
    LET p3 == try_take(p2.rest) IN
    IF ~p3.ok THEN Err(p3.err) ELSE
    LET a3 == try_from(p3.val) IN
    IF ~a3.ok THEN a3 ELSE
    Ok(IfThenElse(a1.val, a3.val, a2.val))

\* Variant of the IfThenElse arm: the three children are taken before any is converted.
TryFromIfThenElseTakeFirst(value) ==
    LET p1 == try_take(value.inner) IN
    IF ~p1.ok THEN Err(p1.err) ELSE
    LET p2 == try_take(p1.rest) IN
    IF ~p2.ok THEN Err(p2.err) ELSE
    LET p3 == try_take(p2.rest) IN
    IF ~p3.ok THEN Err(p3.err) ELSE
    LET a1 == try_from(p1.val) IN
    IF ~a1.ok THEN a1 ELSE
    LET a2 == try_from(p2.val) IN
    IF ~a2.ok THEN a2 ELSE
    LET a3 == try_from(p3.val) IN
    IF ~a3.ok THEN a3 ELSE
    Ok(IfThenElse(a1.val, a2.val, a3.val))

\* IfThenElse arm: three try_take()?.try_into()? in argument order, each `?`
\* returning the first failure.
TryFromIfThenElse(value) ==
    LET p1 == try_take(value.inner) IN
    IF ~p1.ok THEN Err(p1.err) ELSE
    LET a1 == try_from(p1.val) IN
    IF ~a1.ok THEN a1 ELSE
    LET p2 == try_take(p1.rest) IN
    IF ~p2.ok THEN Err(p2.err) ELSE
    LET a2 == try_from(p2.val) IN
    IF ~a2.ok THEN a2 ELSE
    LET p3 == try_take(p2.rest) IN
    IF ~p3.ok THEN Err(p3.err) ELSE
    LET a3 == try_from(p3.val) IN
    IF ~a3.ok THEN a3 ELSE
    Ok(IfThenElse(a1.val, a2.val, a3.val))

\* Succ / Pred / IsZero arms: one try_take()?.try_into()?, boxed under the variant.
TryFromUnary(value) ==
    LET p == try_take(value.inner) IN
    IF ~p.ok THEN Err(p.err) ELSE
    LET a == try_from(p.val) IN
    IF ~a.ok THEN a ELSE Ok(<<value.rule, a.val>>)

\* Term arm: recurse into the first child.
TryFromTerm(value) ==
    LET p == try_take(value.inner) IN
    IF ~p.ok THEN Err(p.err) ELSE try_from(p.val)

\* The fallback arm.
TryFromOther(value) == Err(UnexpectedNodeError(value.rule))

try_from(value) ==
    CASE value.rule = "Term" -> TryFromTerm(value)
      [] value.rule = "True" -> Ok(True)
      [] value.rule = "False" -> Ok(False)
      [] value.rule = "Zero" -> Ok(Zero)
      [] value.rule \in {"Succ", "Pred", "IsZero"} -> TryFromUnary(value)
      [] value.rule = "IfThenElse" -> TryFromIfThenElse(value)
      [] OTHER -> TryFromOther(value)

\* ------------------------------------------------------------------ value predicates
RECURSIVE is_numeric_val(_)
is_numeric_val(v) ==
    CASE v[1] = "Zero" -> TRUE
      [] v[1] = "Succ" -> is_numeric_val(v[2])
      [] OTHER -> FALSE

\* Variant of is_val: the boolean arm is missing.
is_val_numeric_only(v) == is_numeric_val(v)

is_val(v) ==
    CASE v[1] \in {"True", "False"} -> TRUE
      [] is_numeric_val(v) -> TRUE
      [] OTHER -> FALSE

\* ------------------------------------------------------------------ metrics
Max2(a, b) == IF a >= b THEN a ELSE b

\* Variant of arith_size: a literal counts for nothing.
RECURSIVE arith_size_operators(_)
arith_size_operators(v) ==
    CASE v[1] \in {"True", "False", "Zero"} -> 0
      [] v[1] \in {"Succ", "Pred", "IsZero"} -> 1 + arith_size_operators(v[2])
      [] v[1] = "IfThenElse" ->
            1 + arith_size_operators(v[2]) + arith_size_operators(v[3])
              + arith_size_operators(v[4])

RECURSIVE arith_size(_)
arith_size(v) ==
    CASE v[1] \in {"True", "False", "Zero"} -> 1
      [] v[1] \in {"Succ", "Pred", "IsZero"} -> 1 + arith_size(v[2])
      [] v[1] = "IfThenElse" -> 1 + arith_size(v[2]) + arith_size(v[3]) + arith_size(v[4])

\* Variant of arith_depth: the else-branch is left out of the maximum.
RECURSIVE arith_depth_no_else(_)
arith_depth_no_else(v) ==
    CASE v[1] \in {"True", "False", "Zero"} -> 1
      [] v[1] \in {"Succ", "Pred", "IsZero"} -> 1 + arith_depth_no_else(v[2])
      [] v[1] = "IfThenElse" ->
            1 + Max2(arith_depth_no_else(v[2]), arith_depth_no_else(v[3]))

RECURSIVE arith_depth(_)
arith_depth(v) ==
    CASE v[1] \in {"True", "False", "Zero"} -> 1
      [] v[1] \in {"Succ", "Pred", "IsZero"} -> 1 + arith_depth(v[2])
      [] v[1] = "IfThenElse" ->
            1 + Max2(Max2(arith_depth(v[2]), arith_depth(v[3])), arith_depth(v[4]))

\* ------------------------------------------------------------------ evaluator: the match arms
\* Variant of the guard's match: the branches are exchanged.
IfRuleSwapped(cond) ==
    CASE cond = True -> "els"
      [] cond = False -> "then"
      [] OTHER -> "stuck"

\* match on the evaluated guard: which branch is evaluated next, or stuck.
IfRule(cond) ==
    CASE cond = True -> "then"
      [] cond = False -> "els"
      [] OTHER -> "stuck"

\* Variant of Succ's match: the guard is_numeric_val is missing.
SuccRuleUnguarded(v) == Ok(Succ(v))

\* match on the evaluated operand of Succ.
SuccRule(v) ==
    IF is_numeric_val(v) THEN Ok(Succ(v)) ELSE Err(UnknownRuleError(v))

\* Variant of Pred's match: the error carries the whole Pred term.
PredRuleCarriesTerm(v) ==
    CASE v = Zero -> Ok(Zero)
      [] v[1] = "Succ" /\ is_numeric_val(v[2]) -> Ok(v[2])
      [] OTHER -> Err(UnknownRuleError(Pred(v)))

\* Variant of Pred's match: B-PredZero is missing.
PredRuleNoZero(v) ==
    CASE v[1] = "Succ" /\ is_numeric_val(v[2]) -> Ok(v[2])
      [] OTHER -> Err(UnknownRuleError(v))

\* match on the evaluated operand of Pred.
PredRule(v) ==
    CASE v = Zero -> Ok(Zero)
      [] v[1] = "Succ" /\ is_numeric_val(v[2]) -> Ok(v[2])
      [] OTHER -> Err(UnknownRuleError(v))

\* match on the evaluated operand of IsZero.
IsZeroRule(v) ==
    CASE v = Zero -> Ok(True)
      [] v[1] = "Succ" /\ is_numeric_val(v[2]) -> Ok(False)
      [] OTHER -> Err(UnknownRuleError(v))

\* The arm of the operator `op` applied to its evaluated operand.
UnaryRule(op, v) ==
    CASE op = "Succ" -> SuccRule(v)
      [] op = "Pred" -> PredRule(v)
      [] op = "IsZero" -> IsZeroRule(v)

\* eval_ast as a function of its argument.
RECURSIVE eval_ast(_)
eval_ast(v) ==
    IF is_val(v) THEN Ok(v)
    ELSE CASE v[1] = "IfThenElse" ->
                LET cond == eval_ast(v[2]) IN
                IF ~cond.ok THEN cond
                ELSE CASE IfRule(cond.val) = "then" -> eval_ast(v[3])
                       [] IfRule(cond.val) = "els" -> eval_ast(v[4])
                       [] OTHER -> Err(UnknownRuleError(cond.val))
           [] v[1] \in {"Succ", "Pred", "IsZero"} ->
                LET r == eval_ast(v[2]) IN
                IF ~r.ok THEN r ELSE UnaryRule(v[1], r.val)
           [] OTHER -> Err(UnknownRuleError(v))

\* ------------------------------------------------------------------ inputs
UnaryOps == {"Succ", "Pred", "IsZero"}

\* The ASTs of exactly n nodes.
RECURSIVE TermsOfSize(_)
TermsOfSize(n) ==
    IF n < 1 THEN {}
    ELSE IF n = 1 THEN {True, False, Zero}
    ELSE {<<op, v>> : op \in UnaryOps, v \in TermsOfSize(n - 1)}
         \cup UNION {{IfThenElse(c, t, e) :
                          c \in TermsOfSize(ij[1]), t \in TermsOfSize(ij[2]),
                          e \in TermsOfSize(n - 1 - ij[1] - ij[2])} :
                     ij \in {x \in (1..(n - 3)) \X (1..(n - 3)) : x[1] + x[2] <= n - 2}}

Terms == UNION {TermsOfSize(n) : n \in 1..MaxSize}

\* The parse trees of exactly n nodes, and the child sequences of n nodes in all.
RECURSIVE PairsOfSize(_), PairSeqsOfSize(_)
PairsOfSize(n) ==
    IF n < 1 THEN {}
    ELSE {Pair(rule, inner) : rule \in Rules, inner \in PairSeqsOfSize(n - 1)}

PairSeqsOfSize(n) ==
    IF n = 0 THEN {<<>>}
    ELSE UNION {{<<p>> \o ps : p \in PairsOfSize(k), ps \in PairSeqsOfSize(n - k)} :
                k \in 1..n}

SmallPairs == UNION {PairsOfSize(n) : n \in 1..MaxPairNodes}

\* The parse tree of a term: one node per AST node, tagged with the variant's rule,
\* each under a Term node when wrapped (the grammar's Term rule).
RECURSIVE ToPair(_, _)
ToPair(v, wrapped) ==
    LET node == Pair(v[1], [i \in 1..(Len(v) - 1) |-> ToPair(v[i + 1], wrapped)])
    IN IF wrapped THEN Pair("Term", <<node>>) ELSE node

\* The terms of the repository's tests.
ParseExample == IfThenElse(IsZero(Pred(Succ(Zero))), True, False)
NumericExample == Pred(Pred(Succ(Succ(Succ(Zero)))))
IfElseExample == IfThenElse(IsZero(Succ(Zero)), True, False)
MetricExample ==
    IfThenElse(IsZero(Succ(Zero)),
               IfThenElse(IsZero(Pred(Zero)), True, Succ(Zero)),
               False)
Examples == {ParseExample, NumericExample, IfElseExample, MetricExample}

\* The conditionals over literals with one literal replaced by such a conditional.
Literals == {True, False, Zero}
FlatConditionals == {IfThenElse(c, t, e) : c \in Literals, t \in Literals, e \in Literals}
NestedConditionals ==
    {IfThenElse(n, t, e) : n \in FlatConditionals, t \in Literals, e \in Literals}
    \cup {IfThenElse(c, n, e) : c \in Literals, n \in FlatConditionals, e \in Literals}
    \cup {IfThenElse(c, t, n) : c \in Literals, t \in Literals, n \in FlatConditionals}

Inputs ==
    SmallPairs
    \cup {ToPair(v, w) : v \in Terms \cup Examples \cup NestedConditionals, w \in BOOLEAN}

\* ------------------------------------------------------------------ state
VARIABLES
    pair,      \* the parse tree handed to AST::try_from
    pc,        \* main's position: "read", "parse", "metrics", "eval", "done", "exit"
    built,     \* the Result of AST::try_from
    size,      \* arith_size(&input)
    depth,     \* arith_depth(&input)
    stack,     \* the activations of eval_ast, innermost last
    ret,       \* the Result the innermost finished activation returned
    calls,     \* the positions of the input's nodes eval_ast was called on
    output     \* what main ends with: eval_ast's Result, or try_from's failure

vars == <<pair, pc, built, size, depth, stack, ret, calls, output>>

None == [ok |-> FALSE, err |-> <<"None">>]

\* An activation of eval_ast: its argument, the argument's position in the input,
\* and where the activation stands ("enter", or the call it waits for).
Frame(v, at, wait) == [v |-> v, at |-> at, wait |-> wait]

Top == stack[Len(stack)]
Pop == SubSeq(stack, 1, Len(stack) - 1)

\* Before the line is read there is no parse tree.
NoPair == Pair("None", <<>>)

Init ==
    /\ pair = NoPair
    /\ pc = "read"
    /\ built = None
    /\ size = 0
    /\ depth = 0
    /\ stack = <<>>
    /\ ret = None
    /\ calls = {}
    /\ output = None

\* The line is read and the grammar's parser hands over a parse tree.
Read ==
    /\ pc = "read"
    /\ pair' \in Inputs
    /\ pc' = "parse"
    /\ UNCHANGED <<built, size, depth, stack, ret, calls, output>>

\* try_parse: AST::try_from(input)?; a failure is main's result.
Parse ==
    /\ pc = "parse"
    /\ LET r == try_from(pair) IN
         /\ built' = r
         /\ pc' = (IF r.ok THEN "metrics" ELSE "exit")
         /\ output' = (IF r.ok THEN output ELSE r)
    /\ UNCHANGED <<pair, size, depth, stack, ret, calls>>

\* arith_depth(&input), arith_size(&input), then the call eval_ast(input).
Metrics ==
    /\ pc = "metrics"
    /\ depth' = arith_depth(built.val)
    /\ size' = arith_size(built.val)
    /\ pc' = "eval"
    /\ stack' = <<Frame(built.val, <<>>, "enter")>>
    /\ calls' = {<<>>}
    /\ UNCHANGED <<pair, built, ret, output>>

\* The arm of eval_ast's outer match its argument takes.
EnterArm(v) ==
    CASE is_val(v) -> "value"
      [] v[1] = "IfThenElse" -> "if"
      [] v[1] \in UnaryOps -> "unary"
      [] OTHER -> "unknown"

\* B-Value (and the fallback arm): the activation returns at once.
EvalValue ==
    /\ pc = "eval" /\ stack # <<>> /\ Top.wait = "enter"
    /\ EnterArm(Top.v) \in {"value", "unknown"}
    /\ ret' = IF EnterArm(Top.v) = "value" THEN Ok(Top.v)
              ELSE Err(UnknownRuleError(Top.v))
    /\ stack' = Pop
    /\ UNCHANGED <<pair, pc, built, size, depth, calls, output>>

\* IfThenElse arm: eval_ast(*cond).
EvalIf ==
    /\ pc = "eval" /\ stack # <<>> /\ Top.wait = "enter"
    /\ EnterArm(Top.v) = "if"
    /\ stack' = Pop \o <<Frame(Top.v, Top.at, "cond"),
                         Frame(Top.v[2], Top.at \o <<1>>, "enter")>>
    /\ calls' = calls \cup {Top.at \o <<1>>}
    /\ UNCHANGED <<pair, pc, built, size, depth, ret, output>>

\* Succ / Pred / IsZero arms: eval_ast(*v).
EvalUnary ==
    /\ pc = "eval" /\ stack # <<>> /\ Top.wait = "enter"
    /\ EnterArm(Top.v) = "unary"
    /\ stack' = Pop \o <<Frame(Top.v, Top.at, "arg"),
                         Frame(Top.v[2], Top.at \o <<1>>, "enter")>>
    /\ calls' = calls \cup {Top.at \o <<1>>}
    /\ UNCHANGED <<pair, pc, built, size, depth, ret, output>>

\* The guard's Result is back: `?`, then B-IfTrue / B-IfFalse call the branch,
\* and any other guard value is stuck.
ReturnCond ==
    /\ pc = "eval" /\ stack # <<>> /\ Top.wait = "cond"
    /\ IF ~ret.ok
       THEN stack' = Pop /\ ret' = ret /\ calls' = calls
       ELSE CASE IfRule(ret.val) = "then" ->
                   /\ stack' = Pop \o <<Frame(Top.v, Top.at, "tail"),
                                        Frame(Top.v[3], Top.at \o <<2>>, "enter")>>
                   /\ calls' = calls \cup {Top.at \o <<2>>}
                   /\ ret' = None
              [] IfRule(ret.val) = "els" ->
                   /\ stack' = Pop \o <<Frame(Top.v, Top.at, "tail"),
                                        Frame(Top.v[4], Top.at \o <<3>>, "enter")>>
                   /\ calls' = calls \cup {Top.at \o <<3>>}
                   /\ ret' = None
              [] OTHER ->
                   /\ stack' = Pop
                   /\ ret' = Err(UnknownRuleError(ret.val))
                   /\ calls' = calls
    /\ UNCHANGED <<pair, pc, built, size, depth, output>>

\* The selected branch's Result is the conditional's Result.
ReturnBranch ==
    /\ pc = "eval" /\ stack # <<>> /\ Top.wait = "tail"
    /\ stack' = Pop
    /\ UNCHANGED <<pair, pc, built, size, depth, ret, calls, output>>

\* Variant of the operator arms: the operator term is evaluated again instead of
\* being reduced.
ReturnArgRetry ==
    /\ pc = "eval" /\ stack # <<>> /\ Top.wait = "arg"
    /\ ret' = None
    /\ stack' = Pop \o <<Frame(Top.v, Top.at, "enter")>>
    /\ UNCHANGED <<pair, pc, built, size, depth, calls, output>>

\* The operand's Result is back: `?`, then the operator's match.
ReturnArg ==
    /\ pc = "eval" /\ stack # <<>> /\ Top.wait = "arg"
    /\ ret' = IF ~ret.ok THEN ret ELSE UnaryRule(Top.v[1], ret.val)
    /\ stack' = Pop
    /\ UNCHANGED <<pair, pc, built, size, depth, calls, output>>

\* The outermost activation returned: main has eval_ast's Result.
Finish ==
    /\ pc = "eval" /\ stack = <<>>
    /\ output' = ret
    /\ pc' = "done"
    /\ UNCHANGED <<pair, built, size, depth, stack, ret, calls>>

\* main after the line is read.
Run ==
    \/ Parse
    \/ Metrics
    \/ EvalValue
    \/ EvalIf
    \/ EvalUnary
    \/ ReturnCond
    \/ ReturnBranch
    \/ ReturnArg
    \/ Finish

Next == Read \/ Run

Spec == Init /\ [][Next]_vars

\* The steps of eval_ast and of its return to main.
EvalStep ==
    \/ EvalValue
    \/ EvalIf
    \/ EvalUnary
    \/ ReturnCond
    \/ ReturnBranch
    \/ ReturnArg
    \/ Finish

\* eval_ast runs on one thread and makes no blocking call: a step of it that can be
\* taken is taken.
FairSpec == Spec /\ WF_vars(EvalStep)

TypeOK ==
    /\ pc \in {"read", "parse", "metrics", "eval", "done", "exit"}
    /\ pc = "parse" => pair \in Inputs
    /\ (pc = "read") = (pair = NoPair)
    /\ size \in Nat /\ depth \in Nat
    /\ \A i \in 1..Len(stack) : stack[i].wait \in {"enter", "cond", "arg", "tail"}
    /\ (pc = "eval" /\ stack # <<>> /\ Top.wait = "enter") => ret = None
    /\ (pc = "eval" /\ stack # <<>> /\ Top.wait # "enter") => ret # None

\* The call stack computes the function eval_ast.
StackComputesEval == pc = "done" => output = eval_ast(built.val)

\* ------------------------------------------------------------------ vocabulary of the properties
\* The AST main holds once try_from succeeded.
Ast == built.val
Built == pc \notin {"read", "parse"}
Evaluated == pc = "done"

\* The positions of a term's nodes: the root is <<>>, child i of the node at p is p \o <<i>>.
RECURSIVE Positions(_)
Positions(v) ==
    {<<>>} \cup UNION {{<<i>> \o p : p \in Positions(v[i + 1])} : i \in 1..(Len(v) - 1)}

RECURSIVE NodeAt(_, _)
NodeAt(v, p) == IF p = <<>> THEN v ELSE NodeAt(v[p[1] + 1], Tail(p))

\* The operators of a term, each with its position.
AstLabels(v) == {<<p, NodeAt(v, p)[1]>> : p \in Positions(v)}

NodeCount(v) == Cardinality(Positions(v))
LongestPath(v) == CHOOSE d \in 1..NodeCount(v) :
                     /\ \E p \in Positions(v) : Len(p) + 1 = d
                     /\ \A p \in Positions(v) : Len(p) + 1 <= d

\* Succ^n Zero.
RECURSIVE Numeral(_)
Numeral(n) == IF n = 0 THEN Zero ELSE Succ(Numeral(n - 1))

\* True, False, or a chain of Succ ending in Zero.
IsValueTerm(v) == v \in {True, False} \/ \E n \in 0..NodeCount(v) : v = Numeral(n)

IsUnknownRuleError(r) == ~r.ok /\ r.err[1] = "UnknownRuleError"

\* ------------------------------------------------------------------ C1
\* C1: whenever eval_ast returns Ok(r), r is True, False, or Succ^n Zero.
C1_ValueClosure == (Evaluated /\ output.ok) => IsValueTerm(output.val)

\* A reducible term whose evaluation succeeded with a numeral built by B-Succ.
C1_Witness ==
    /\ Evaluated /\ output.ok /\ ~IsValueTerm(Ast)
    /\ output.val = Succ(Zero)

\* ------------------------------------------------------------------ C2
StuckExamples == {Pred(True), Succ(True), IfThenElse(Zero, True, False)}

\* C2 (as stated): Pred(True), Succ(True) and IfThenElse(Zero, True, False) fail with
\* UnknownRuleError, and the node the error carries is not a value.
C2_CarriesNonValue ==
    (Evaluated /\ Ast \in StuckExamples) =>
        (IsUnknownRuleError(output) /\ ~IsValueTerm(output.err[2]))

\* C2 (amended): the three terms fail with UnknownRuleError, and the node carried is
\* the evaluated operand (or guard) no rule matched: True, True and Zero, each a value.
C2_CarriesEvaluatedOperand ==
    Evaluated =>
        /\ Ast = Pred(True) => output = Err(UnknownRuleError(True))
        /\ Ast = Succ(True) => output = Err(UnknownRuleError(True))
        /\ Ast = IfThenElse(Zero, True, False) => output = Err(UnknownRuleError(Zero))

C2_Witness ==
    /\ Evaluated /\ Ast = IfThenElse(Zero, True, False)
    /\ IsUnknownRuleError(output) /\ IsValueTerm(output.err[2])

\* ------------------------------------------------------------------ C3
\* C3: eval_ast of a value v is Ok(v), and a successful result evaluates to itself.
C3_Idempotent ==
    Evaluated =>
        /\ IsValueTerm(Ast) => output = Ok(Ast)
        /\ output.ok => eval_ast(output.val) = output

\* A numeral of three nodes came back unchanged.
C3_Witness == Evaluated /\ Ast = Numeral(2) /\ output = Ok(Numeral(2))

\* ------------------------------------------------------------------ C4
\* A term built only from Zero, Succ and Pred.
NumericTerm(v) == \A l \in AstLabels(v) : l[2] \in {"Zero", "Succ", "Pred"}

\* The natural number folded from the innermost Zero outward, Pred of 0 being 0.
RECURSIVE NatOf(_)
NatOf(v) ==
    CASE v[1] = "Zero" -> 0
      [] v[1] = "Succ" -> NatOf(v[2]) + 1
      [] v[1] = "Pred" -> IF NatOf(v[2]) = 0 THEN 0 ELSE NatOf(v[2]) - 1

\* C4: a term of Zero, Succ and Pred evaluates to the numeral of its saturating fold;
\* pred pred succ succ succ 0 gives Succ(Zero) and Pred(Zero) gives Zero.
C4_SaturatingNumeric ==
    Evaluated =>
        /\ NumericTerm(Ast) => output = Ok(Numeral(NatOf(Ast)))
        /\ Ast = NumericExample => output = Ok(Succ(Zero))
        /\ Ast = Pred(Zero) => output = Ok(Zero)

\* Pred saturated at Zero below a Succ: succ pred pred 0 gave Succ(Zero).
C4_Witness == Evaluated /\ Ast = Succ(Pred(Pred(Zero))) /\ output = Ok(Succ(Zero))

\* ------------------------------------------------------------------ C5
CalledUnder(i) == \E p \in calls : p # <<>> /\ p[1] = i

\* C5: the conditional evaluates its guard first; on True the outcome is that of the
\* then-branch, on False that of the else-branch, any other guard value fails with
\* UnknownRuleError; the branch not selected is never evaluated.
C5_ConditionalSelection ==
    (pc \in {"eval", "done"} /\ Ast[1] = "IfThenElse") =>
        LET guard == eval_ast(Ast[2]) IN
        /\ (CalledUnder(2) \/ CalledUnder(3)) => (CalledUnder(1) /\ guard.ok)
        /\ CalledUnder(2) => guard = Ok(True)
        /\ CalledUnder(3) => guard = Ok(False)
        /\ Evaluated =>
              /\ CalledUnder(1)
              /\ guard = Ok(True) => (output = eval_ast(Ast[3]) /\ CalledUnder(2))
              /\ guard = Ok(False) => (output = eval_ast(Ast[4]) /\ CalledUnder(3))
              /\ (guard.ok /\ guard.val \notin {True, False}) =>
                     IsUnknownRuleError(output)

\* The stuck else-branch was not selected, and the conditional succeeded.
C5_Witness ==
    /\ Evaluated /\ Ast = IfThenElse(True, Zero, Pred(True))
    /\ output = Ok(Zero) /\ ~CalledUnder(3)

\* ------------------------------------------------------------------ C6
\* C6: arith_size is the number of nodes and arith_depth the number of nodes on the
\* longest root-to-leaf path, also for stuck terms; the test's term has 12 and 5.
C6_MetricDefinitions ==
    pc \in {"eval", "done"} =>
        /\ size = NodeCount(Ast)
        /\ depth = LongestPath(Ast)
        /\ Ast = MetricExample => (size = 12 /\ depth = 5)

C6_Witness == Evaluated /\ Ast = MetricExample /\ size = 12 /\ depth = 5

\* ------------------------------------------------------------------ C7
\* C7: arith_size(t) >= arith_depth(t) >= 1.
C7_MetricConsistency == pc \in {"eval", "done"} => (size >= depth /\ depth >= 1)

\* A conditional, where size exceeds depth.
C7_Witness == pc = "eval" /\ Ast[1] = "IfThenElse" /\ size > depth

\* ------------------------------------------------------------------ C8
\* Each mapped node has its variant's arity; a Term node has one child.
RECURSIVE WellFormed(_)
WellFormed(p) ==
    /\ p.rule \in MappedRules
    /\ Len(p.inner) = (CASE p.rule \in {"True", "False", "Zero"} -> 0
                         [] p.rule \in UnaryOps \cup {"Term"} -> 1
                         [] p.rule = "IfThenElse" -> 3)
    /\ \A i \in 1..Len(p.inner) : WellFormed(p.inner[i])

\* The operators of a parse tree, each with its position, Term nodes left out.
RECURSIVE PairLabels(_)
PairLabels(p) ==
    IF p.rule = "Term"
    THEN PairLabels(p.inner[1])
    ELSE {<<<<>>, p.rule>>}
         \cup UNION {{<<<<i>> \o l[1], l[2]>> : l \in PairLabels(p.inner[i])} :
                     i \in 1..Len(p.inner)}

\* C8: AST::try_from of a well-formed parse tree succeeds with the same operators in
\* the same nesting, Term nodes adding nothing; the test's tree gives the test's AST.
C8_StructurePreserved ==
    Built =>
        /\ WellFormed(pair) => (built.ok /\ AstLabels(built.val) = PairLabels(pair))
        /\ pair = ToPair(ParseExample, TRUE) => built = Ok(ParseExample)

C8_Witness ==
    /\ Built /\ pair = ToPair(ParseExample, TRUE) /\ WellFormed(pair)
    /\ built = Ok(ParseExample)

\* ------------------------------------------------------------------ C9
\* The Result of the first child that fails to convert, if one does.
FirstFailure(inner) ==
    LET bad == {i \in 1..Len(inner) : ~try_from(inner[i]).ok}
    IN IF bad = {} THEN None
       ELSE try_from(inner[CHOOSE i \in bad : \A j \in bad : i <= j])

UnmappedRoot == pair.rule \notin MappedRules
UnaryNoChild == pair.rule \in UnaryOps /\ Len(pair.inner) = 0
ShortConditional == pair.rule = "IfThenElse" /\ Len(pair.inner) < 3

\* C9 (as stated): an unmapped rule fails with UnexpectedNodeError of that rule; a
\* childless Succ/Pred/IsZero, and an IfThenElse with fewer than three children
\* whatever they are, fail with EmptyPairsError.
C9_ShortConditionalAlwaysEmptyPairs ==
    Built =>
        /\ UnmappedRoot => built = Err(UnexpectedNodeError(pair.rule))
        /\ UnaryNoChild => built = Err(EmptyPairsError)
        /\ ShortConditional => built = Err(EmptyPairsError)

\* C9 (amended): as stated, but an IfThenElse with fewer than three children fails
\* with the error of its first child that fails to convert, and with EmptyPairsError
\* when every child it has converts.
C9_BuilderErrors ==
    Built =>
        /\ UnmappedRoot => built = Err(UnexpectedNodeError(pair.rule))
        /\ UnaryNoChild => built = Err(EmptyPairsError)
        /\ ShortConditional =>
              built = (IF FirstFailure(pair.inner) = None
                       THEN Err(EmptyPairsError)
                       ELSE FirstFailure(pair.inner))

\* A conditional with two convertible children: the third is missing.
C9_Witness ==
    /\ Built /\ ShortConditional /\ Len(pair.inner) = 2
    /\ FirstFailure(pair.inner) = None
    /\ built = Err(EmptyPairsError)

\* ------------------------------------------------------------------ C10
\* What is left of the evaluation: two steps for each node not yet called, one for
\* each activation on the stack.
Fuel == 2 * (size - Cardinality(calls)) + Len(stack)

\* C10: eval_ast, once called, eventually returns, and its Result is Ok(value) or
\* Err(UnknownRuleError(node)); the recursion cannot continue forever, since every
\* step of it uses up fuel, of which there is a finite amount, and a step is possible
\* until main has the Result.
C10_EvalTerminates ==
    /\ (pc = "eval") ~> (pc = "done")
    /\ [][(pc = "eval" /\ pc' = "eval") => (Fuel' < Fuel /\ Fuel' >= 0)]_vars
    /\ [](pc = "eval" => ENABLED Run)
    /\ [](Evaluated =>
            \/ output.ok /\ IsValueTerm(output.val)
            \/ IsUnknownRuleError(output))

\* An evaluation that called eval_ast on every node of a term of five nodes or more
\* returned.
C10_Witness == Evaluated /\ size >= 5 /\ Cardinality(calls) = size

====
